---- MODULE Spec2Model ----
(***************************************************************************)
(* The Appfile compiler of otto (package appfile in                        *)
(* src/builtin/app/go/customization.go): import resolution                 *)
(* (compileImports), dependency compilation (compileDependencies), graph   *)
(* validation (Compiled.Validate), the artifact store (compileVersion,     *)
(* compileWrite, LoadCompiled) and the facade (Compile, MinCompile).       *)
(*                                                                         *)
(* External collaborators are modelled by what the code relies on:         *)
(*   getter.Detect      a table from source strings to canonical keys      *)
(*   Storage.Get / Dir  the outcome recorded for the key in `repo`         *)
(*   ParseFile          the Appfile recorded for the key in `repo`         *)
(*   dag.AcyclicGraph   Add/Connect keep sets; Cycles() returns the        *)
(*                      strongly connected components of more than one     *)
(*                      vertex; Walk runs a vertex's callback once the     *)
(*                      callbacks of all its down-edge targets returned    *)
(* The content of a repository is fixed the first time it is fetched       *)
(* (`repo` goes from unknown to a value once) and stays the same after.    *)
(***************************************************************************)
EXTENDS Integers, Sequences, FiniteSets, TLC

\* ------------------------------------------------------------- bounds
\* longest import list of the Appfile handed to MinCompile
MaxImports == 2
\* deepest nesting of downloads (a download started by the file of a
\* download) one behaviour may reach
MaxDepth == 3
\* longest dependency list of the Appfile handed to Compile
MaxDeps == 2
\* number of Compile calls made on one Compiler
MaxCompiles == 2

\* longest line of a version file
MaxVsnLen == 3

\* the compilation format version
CompileVersion == 1

\* ------------------------------------------------------------- universe
\* canonical keys of importable Appfiles
ImpKeys == {"x", "y", "z"}
\* a source string getter.Detect rejects
BadSource == "bad"
\* source strings an import entry may carry
ImpSources == ImpKeys \cup {BadSource}
\* the import lists of an imported Appfile: at most one entry
NestedLists == {<<>>} \cup {<<src>> : src \in ImpSources}
\* the name of the synthetic root vertex of the import graph (line 538)
RootName == "root"
\* canonical keys of the Appfiles a dependency entry may resolve to: the
\* root's own key and the keys of two dependency repositories
RootKey == "r"
DepKeys == {"a", "b"}
AllDepKeys == DepKeys \cup {RootKey}
\* source strings of the root's dependency entries ("." is the root's own
\* directory) and of the entries of a fetched dependency
RootDepSources == {".", "a", "b", BadSource}
DepSources == {"a", "b", RootKey, BadSource}
NestedDepLists == {<<>>} \cup {<<src>> : src \in DepSources}
\* the import lists of an Appfile handed to Compile and of a dependency
CompileImportLists == {<<>>, <<"x">>, <<"x", BadSource>>}

VARIABLES
    cpc,        \* position of the caller's goroutine (Compile / MinCompile)
    api,        \* the method the caller invoked: "Compile" or "MinCompile"
    opts,       \* CompileOpts: whether Loader and Callback are set
    compileErr, \* the error Compile / MinCompile returned, "" for none
    writes,     \* history: the files of the output directory written
    vertices,   \* Compiled.Graph: the vertices, [file, dir]; 1 is the root
    edges,      \* Compiled.Graph: the edges, pairs of vertex indices
    vertexMap,  \* compileDependencies: key -> vertex index, 0 for none
    queue,      \* compileDependencies: the worklist of vertex indices
    cur,        \* compileDependencies: the vertex popped, 0 for none
    di,         \* compileDependencies: position in cur's dependencies
    depKey,     \* compileDependencies: the key being loaded
    depf,       \* compileDependencies: f, <<>> for nil
    deprepo,    \* what each dependency repository holds, <<>> until fetched
    events,     \* history: Callback, Storage.Get and Loader calls, in order
    valErrs,    \* Compiled.Validate: result
    walked,     \* Compiled.Validate: vertices whose Walk callback returned
    lpc,        \* position of a LoadCompiled call
    disk,       \* LoadCompiled: what the directory holds
    vsn,        \* LoadCompiled: the integer parsed, <<>> for none
    loadRet,    \* LoadCompiled: what it returned, [err, value]
    loadLog,    \* history: whether Appfile.compiled was opened, decoded
    rootFile,   \* the *File handed to Compile / MinCompile, mutated in place
    repo,       \* what each key's repository holds, <<>> until first fetched
    cache,      \* Compiler.importCache: key -> <<>> or <<File>>
    tasks,      \* import frames: tasks[1] is importSingle("root", f), the
                \* others are downloadSingle goroutines
    impGraph,   \* edges of the import graph of the current compileImports
    resultErr,  \* the multierror accumulated by the current compileImports
    impRet,     \* what compileImports returned: "none", "nil" or "err"
    gets,       \* history: number of importStorage.Get calls per key
    mergeLog,   \* history: the f.Merge calls of the current compileImports
                \* call, [host, imp, ok]
    hostOrig    \* history: the file as it was handed to compileImports

\* the state of a LoadCompiled call
loadVars == <<lpc, disk, vsn, loadRet, loadLog>>

\* what the steps of Compile and MinCompile leave alone: the method
\* called, the options, and the state of LoadCompiled
conf == <<api, opts, loadVars>>

\* the state of compileDependencies and Compiled.Validate
depVars == <<vertexMap, queue, cur, di, depKey, depf, deprepo, events>>
graphVars == <<vertices, edges, valErrs, walked>>

\* what import resolution leaves alone
outer == <<cpc, conf, compileErr, writes, depVars,
          graphVars>>

\* the state of one compileImports call, and the compiler's import state
impVars == <<tasks, impGraph, resultErr, impRet, hostOrig>>
impStore == <<repo, cache, gets>>
impWorld == <<impStore, mergeLog>>

vars == <<cpc, conf, compileErr, writes, depVars, graphVars,
          rootFile, impVars, impWorld>>

\* ------------------------------------------------------------- helpers
Range(s) == {s[i] : i \in DOMAIN s}

\* the sequences over S of length at most n
RECURSIVE SeqsUpTo(_, _)
SeqsUpTo(S, n) ==
    IF n = 0 THEN {<<>>}
    ELSE LET shorter == SeqsUpTo(S, n - 1)
         IN  shorter \cup
             {Append(q, e) : q \in {p \in shorter : Len(p) = n - 1},
                             e \in S}

\* ------------------------------------------------------------- File
\* A File: key is the repository it was parsed from (model identity of the
\* content), content the keys whose content was merged in, in order.
MkFile(k, id, path, imps) ==
    [key |-> k, id |-> id, path |-> path, source |-> "",
     imports |-> imps, content |-> <<k>>,
     deps |-> <<>>, infra |-> "", project |-> <<>>]

\* File.Merge: the host takes the other's id and path when they are set,
\* and the other's content after its own.
Merge(f, other) ==
    [f EXCEPT !.id = IF other.id # "" THEN other.id ELSE @,
              !.path = IF other.path # "" THEN other.path ELSE @,
              !.content = @ \o other.content]

\* getter.Detect(source, dir, detectors): <<>> on error, else <<key>>
Detect(source, base) ==
    IF source = BadSource THEN <<>>
    ELSE IF source = "." THEN <<base>>
    ELSE <<source>>

\* ------------------------------------------------------------- dag
Vertices(es) == {e[1] : e \in es} \cup {e[2] : e \in es}

\* the vertices reachable from v along at least one edge
RECURSIVE ReachFrom(_, _, _)
ReachFrom(front, seen, es) ==
    LET next == {e[2] : e \in {d \in es : d[1] \in front}} \ seen
    IN  IF next = {} THEN seen
        ELSE ReachFrom(next, seen \cup next, es)

Reach(v, es) == ReachFrom({v}, {}, es)

\* dag.StronglyConnected: the component of v
SCC(v, es) ==
    {v} \cup {w \in Reach(v, es) : v \in Reach(w, es)}

\* dag.AcyclicGraph.Cycles: the components of more than one vertex
Cycles(es) ==
    {c \in {SCC(v, es) : v \in Vertices(es)} : Cardinality(c) > 1}

\* ------------------------------------------------------------- world
\* What an importable repository can hold: Storage.Get fails, Storage.Dir
\* fails, ParseFile fails, or an Appfile with an import list; mergeable
\* tells whether File.Merge accepts that Appfile.
ImpWorlds ==
    {[status |-> s, imports |-> <<>>, mergeable |-> TRUE] :
        s \in {"getfail", "dirfail", "parsefail"}}
    \cup
    {[status |-> "ok", imports |-> q, mergeable |-> TRUE] :
        q \in NestedLists}
    \cup
    {[status |-> "ok", imports |-> <<>>, mergeable |-> FALSE]}

\* the repository of key k as this fetch finds it
WorldOf(k) == IF repo[k] = <<>> THEN ImpWorlds ELSE {repo[k][1]}

\* ------------------------------------------------------------- errors
\* one entry of the multierror: kind, the frame's name, and for a cycle
\* error the vertices of the cycle
Err(kind, at) == [kind |-> kind, at |-> at, cyc |-> {}]
CycleErr(at, c) == [kind |-> "cycle", at |-> at, cyc |-> c]

\* ------------------------------------------------------------- frames
\* tasks[1] is the importSingle("root", f) of compileImports, on the
\* caller's goroutine; every other task is a downloadSingle goroutine
\* together with the importSingle it calls.
RootTask == 1

\* a download goroutine at its start: cached is the pointer read from the
\* import cache (line 641), cycles the result of graph.Cycles() (line 578)
NewTask(src, par, idx) ==
    [src |-> src, par |-> par, idx |-> idx, pc |-> "cache", i |-> 1,
     file |-> <<>>, slots |-> <<>>, ret |-> "none", cached |-> <<>>,
     cycles |-> {}]

\* the position of a frame whose import list is imps once i-1 of them
\* have been started
LoopPc(imps, i) == IF i > Len(imps) THEN "wait" ELSE "loop"

Children(t) == {c \in DOMAIN tasks : tasks[c].par = t}

\* the frames frame t runs under: the frame that started its download,
\* and the frames above that one
RECURSIVE Ancestors(_)
Ancestors(t) ==
    IF tasks[t].par = 0 THEN {}
    ELSE {tasks[t].par} \cup Ancestors(tasks[t].par)

\* sync.WaitGroup of frame t: the goroutines it started that have not
\* called wg.Done
WaitCount(t) == Cardinality({c \in Children(t) : tasks[c].pc # "done"})

\* compileImports line 707: the error value handed to the caller
RetOf(errs) == IF errs = <<>> THEN "nil" ELSE "err"

\* Frame t ends (importSingle returned and, for a download, wg.Done ran).
\* When it is the root frame compileImports returns resultErr.
\* r is what its importSingle returned ("none" when it was not called).
EndFrame(tk, t, errs, r) ==
    /\ tasks' = [tk EXCEPT ![t].pc = "done", ![t].ret = r]
    /\ impRet' = IF t = RootTask THEN RetOf(errs) ELSE impRet

\* downloadSingle lines 640-643: the lookup under cacheLock finds the key;
\* the lock is released with the pointer read held by the goroutine
DownloadLookupHit(t) ==
    /\ tasks[t].pc = "cache"
    /\ t # RootTask
    /\ cache[tasks[t].src] # <<>>
    /\ tasks' = [tasks EXCEPT ![t].cached = cache[tasks[t].src],
                              ![t].pc = "hit"]
    /\ UNCHANGED <<outer, rootFile, repo, cache, impGraph, resultErr,
                   impRet, gets, mergeLog, hostOrig>>

\* downloadSingle lines 644-649: the pointer read from the cache is
\* written into the parent's merge slot under the merge lock, and the
\* goroutine ends
DownloadCacheHit(t) ==
    /\ tasks[t].pc = "hit"
    /\ LET p == tasks[t].par
           filled == [tasks EXCEPT ![p].slots[tasks[t].idx] =
                                        tasks[t].cached]
       IN  EndFrame(filled, t, resultErr, "none")
    /\ UNCHANGED <<outer, rootFile, repo, cache, impGraph, resultErr, gets,
                   mergeLog, hostOrig>>

\* downloadSingle lines 640-643: the lookup under cacheLock does not find
\* the key; the lock is released before the download starts
DownloadLookupMiss(t) ==
    /\ tasks[t].pc = "cache"
    /\ t # RootTask
    /\ cache[tasks[t].src] = <<>>
    /\ tasks' = [tasks EXCEPT ![t].pc = "miss"]
    /\ UNCHANGED <<outer, rootFile, repo, cache, impGraph, resultErr,
                   impRet, gets, mergeLog, hostOrig>>

\* downloadSingle lines 653-657: the Callback, when set, is told of the
\* import
DownloadCallback(t) ==
    /\ tasks[t].pc = "miss"
    /\ opts.callback
    /\ events' = Append(events, [call |-> "import", key |-> tasks[t].src])
    /\ tasks' = [tasks EXCEPT ![t].pc = "get"]
    /\ UNCHANGED <<cpc, conf, compileErr, writes, vertexMap, queue, cur, di,
                   depKey, depf, deprepo, graphVars, rootFile, repo, cache,
                   impGraph, resultErr, impRet, gets, mergeLog, hostOrig>>

\* the goroutine is about to call Storage.Get: after the Callback, or
\* after the lookup when no Callback is set
AtGet(t) ==
    \/ tasks[t].pc = "get"
    \/ tasks[t].pc = "miss" /\ ~opts.callback

\* downloadSingle line 660: Storage.Get is called for the key, with no
\* lock held, whatever the import cache holds by now
DownloadGet(t) ==
    /\ AtGet(t)
    /\ LET k == tasks[t].src
       IN  \E w \in WorldOf(k) :
             /\ repo' = [repo EXCEPT ![k] = <<w>>]
             /\ gets' = [gets EXCEPT ![k] = @ + 1]
    /\ tasks' = [tasks EXCEPT ![t].pc = "fetched"]
    /\ UNCHANGED <<outer, rootFile, cache, impGraph, resultErr, impRet,
                   mergeLog, hostOrig>>

\* the outcome of the fetch of frame t's key
Fetched(t) == repo[tasks[t].src][1]

\* faulty variant: a failed download ends without appending its error
DownloadFailSilent(t) ==
    /\ tasks[t].pc = "fetched"
    /\ Fetched(t).status # "ok"
    /\ resultErr' = resultErr
    /\ EndFrame(tasks, t, resultErr', "none")
    /\ UNCHANGED <<outer, rootFile, repo, cache, impGraph, gets, mergeLog,
                   hostOrig>>

\* downloadSingle lines 660-684: Storage.Get, Storage.Dir or ParseFile has
\* failed: the error is appended under the error lock and the goroutine
\* ends, its slot left nil
DownloadFail(t) ==
    /\ tasks[t].pc = "fetched"
    /\ Fetched(t).status # "ok"
    /\ resultErr' = Append(resultErr, Err(Fetched(t).status, tasks[t].src))
    /\ EndFrame(tasks, t, resultErr', "none")
    /\ UNCHANGED <<outer, rootFile, repo, cache, impGraph, gets, mergeLog,
                   hostOrig>>

\* faulty variant: the parsed file is written into the parent's slot before its
\* own imports are resolved
DownloadParsedEarlySlot(t) ==
    /\ tasks[t].pc = "fetched"
    /\ Fetched(t).status = "ok"
    /\ LET k == tasks[t].src
           imps == Fetched(t).imports
       IN  tasks' = [tasks EXCEPT
                    ![t].file = <<MkFile(k, k, k, imps)>>,
                    ![t].slots = [j \in DOMAIN imps |-> <<>>],
                    ![t].pc = LoopPc(imps, 1),
                    ![tasks[t].par].slots[tasks[t].idx] =
                        <<MkFile(k, k, k, imps)>>]
    /\ UNCHANGED <<outer, rootFile, repo, cache, impGraph, resultErr, impRet,
                   gets, mergeLog, hostOrig>>

\* downloadSingle lines 667-691: the Appfile fetched is parsed, its ID
\* carries the source, and importSingle(source, importF) starts
DownloadParsed(t) ==
    /\ tasks[t].pc = "fetched"
    /\ Fetched(t).status = "ok"
    /\ LET k == tasks[t].src
           imps == Fetched(t).imports
       IN  tasks' = [tasks EXCEPT
                    ![t].file = <<MkFile(k, k, k, imps)>>,
                    ![t].slots = [j \in DOMAIN imps |-> <<>>],
                    ![t].pc = LoopPc(imps, 1)]
    /\ UNCHANGED <<outer, rootFile, repo, cache, impGraph, resultErr, impRet,
                   gets, mergeLog, hostOrig>>

\* importSingle lines 562-572: getter.Detect rejects the import's source;
\* the frame returns false without waiting for the goroutines it started
ImportBadSource(t) ==
    /\ tasks[t].pc = "loop"
    /\ LET f == tasks[t].file[1]
       IN  /\ Detect(f.imports[tasks[t].i], f.path) = <<>>
           /\ resultErr' = Append(resultErr, Err("source", tasks[t].src))
           /\ EndFrame(tasks, t, resultErr', "false")
    /\ UNCHANGED <<outer, rootFile, repo, cache, impGraph, gets, mergeLog,
                   hostOrig>>

\* importSingle lines 574-580: under the graph lock the edge parent ->
\* source is added and graph.Cycles() is not empty; the lock is released
\* with the cycles found held by the frame
ImportCycleFound(t) ==
    /\ tasks[t].pc = "loop"
    /\ LET f == tasks[t].file[1]
           d == Detect(f.imports[tasks[t].i], f.path)
       IN  /\ d # <<>>
           /\ impGraph' = impGraph \cup {<<tasks[t].src, d[1]>>}
           /\ Cycles(impGraph') # {}
           /\ tasks' = [tasks EXCEPT ![t].cycles = Cycles(impGraph'),
                                     ![t].pc = "cycle"]
    /\ UNCHANGED <<outer, rootFile, repo, cache, resultErr, impRet, gets,
                   mergeLog, hostOrig>>

\* importSingle lines 581-592: under the error lock one cycle error is
\* appended, for the first of the cycles found (the return sits inside
\* the loop over them), and the frame returns false without waiting
ImportCycle(t) ==
    /\ tasks[t].pc = "cycle"
    /\ \E c \in tasks[t].cycles :
         resultErr' = Append(resultErr, CycleErr(tasks[t].src, c))
    /\ EndFrame(tasks, t, resultErr', "false")
    /\ UNCHANGED <<outer, rootFile, repo, cache, impGraph, gets, mergeLog,
                   hostOrig>>

\* importSingle lines 574-597: the edge is added, no cycle is reported,
\* and the download goroutine of this import is started. The go statement
\* never blocks; the nesting of downloads is cut at MaxDepth, which only a
\* file that imports itself can reach.
ImportSpawn(t) ==
    /\ tasks[t].pc = "loop"
    /\ Cardinality(Ancestors(t)) < MaxDepth
    /\ LET f == tasks[t].file[1]
           i == tasks[t].i
           d == Detect(f.imports[i], f.path)
       IN  /\ d # <<>>
           /\ impGraph' = impGraph \cup {<<tasks[t].src, d[1]>>}
           /\ Cycles(impGraph') = {}
           /\ tasks' = Append([tasks EXCEPT
                                 ![t].i = i + 1,
                                 ![t].pc = LoopPc(f.imports, i + 1)],
                              NewTask(d[1], t, i))
    /\ UNCHANGED <<outer, rootFile, repo, cache, resultErr, impRet, gets,
                   mergeLog, hostOrig>>

\* faulty variant: the imported file is merged as it is, ID and Path set
MergeCopyKeepsIdentity(importF) == importF

\* importSingle lines 612-618: the copy of the imported file that is
\* merged, its ID and Path cleared
MergeCopy(importF) == [importF EXCEPT !.id = "", !.path = ""]

\* faulty variant: the slots merged last to first
MergeOrderReversed(slots) == [j \in DOMAIN slots |-> Len(slots) + 1 - j]

\* importSingle line 611: the order in which the merge slots are merged
MergeOrder(slots) == [j \in DOMAIN slots |-> j]

\* importSingle lines 611-628: merge the slots into f in order, from the
\* n-th of them on; the result is the file, the number of f.Merge calls
\* made, and whether the last of them succeeded
RECURSIVE MergeFrom(_, _, _, _)
MergeFrom(f, slots, order, n) ==
    IF n > Len(order) THEN [file |-> f, calls |-> Len(order), ok |-> TRUE]
    ELSE LET copy == MergeCopy(slots[order[n]][1])
         IN  IF repo[copy.key][1].mergeable
             THEN MergeFrom(Merge(f, copy), slots, order, n + 1)
             ELSE [file |-> f, calls |-> n, ok |-> FALSE]

\* the f.Merge calls of one merge pass, as mergeLog records them
MergeCalls(t, slots, order, m) ==
    [n \in 1 .. m.calls |->
        [host |-> t, imp |-> slots[order[n]][1].key,
         ok |-> (n < m.calls \/ m.ok)]]

\* importSingle lines 605-609: no merge slot is nil
MergeReady(slots) == \A j \in DOMAIN slots : slots[j] # <<>>

\* faulty variant: the frame does not wait for its goroutines
JoinedNoBarrier(t) == t \in DOMAIN tasks

\* sync.WaitGroup.Wait line 600: all goroutines of the frame are done
Joined(t) == WaitCount(t) = 0

\* the caller's file is the root frame's file while MinCompile resolves it
HostIsRoot == cpc = "imports"

WriteThrough(t, f) ==
    rootFile' = IF t = RootTask /\ HostIsRoot THEN f ELSE rootFile

\* importSingle lines 600-609: after the barrier a nil slot makes the
\* frame return false, nothing merged and nothing appended
ImportNilSlot(t) ==
    /\ tasks[t].pc = "wait"
    /\ Joined(t)
    /\ ~MergeReady(tasks[t].slots)
    /\ EndFrame(tasks, t, resultErr, "false")
    /\ UNCHANGED <<outer, rootFile, repo, cache, impGraph, resultErr, gets,
                   mergeLog, hostOrig>>

\* importSingle lines 611-621: the merge loop runs, holding no lock, up
\* to an f.Merge call that fails; the earlier imports are merged into f
ImportMergeRefused(t) ==
    /\ tasks[t].pc = "wait"
    /\ Joined(t)
    /\ MergeReady(tasks[t].slots)
    /\ LET order == MergeOrder(tasks[t].slots)
           m == MergeFrom(tasks[t].file[1], tasks[t].slots, order, 1)
       IN  /\ ~m.ok
           /\ mergeLog' = mergeLog \o MergeCalls(t, tasks[t].slots, order, m)
           /\ WriteThrough(t, m.file)
           /\ tasks' = [tasks EXCEPT ![t].file = <<m.file>>,
                                     ![t].pc = "refused"]
    /\ UNCHANGED <<outer, repo, cache, impGraph, resultErr, impRet, gets,
                   hostOrig>>

\* importSingle lines 622-627: under the error lock the merge error is
\* appended, and the frame returns false
ImportMergeFail(t) ==
    /\ tasks[t].pc = "refused"
    /\ resultErr' = Append(resultErr, Err("merge", tasks[t].src))
    /\ EndFrame(tasks, t, resultErr', "false")
    /\ UNCHANGED <<outer, rootFile, repo, cache, impGraph, gets, mergeLog,
                   hostOrig>>

\* importSingle lines 611-630 and, for a download, lines 691-698: every
\* import merged, importSingle returns true; the root frame ends, a
\* download writes the file into its parent's slot under the merge lock
ImportMerged(t) ==
    /\ tasks[t].pc = "wait"
    /\ Joined(t)
    /\ MergeReady(tasks[t].slots)
    /\ LET order == MergeOrder(tasks[t].slots)
           m == MergeFrom(tasks[t].file[1], tasks[t].slots, order, 1)
           merged == [tasks EXCEPT ![t].file = <<m.file>>]
       IN  /\ m.ok
           /\ mergeLog' = mergeLog \o MergeCalls(t, tasks[t].slots, order, m)
           /\ WriteThrough(t, m.file)
           /\ IF t = RootTask
              THEN EndFrame(merged, t, resultErr, "true")
              ELSE /\ tasks' = [merged EXCEPT
                          ![tasks[t].par].slots[tasks[t].idx] = <<m.file>>,
                          ![t].ret = "true",
                          ![t].pc = "store"]
                   /\ impRet' = impRet
    /\ UNCHANGED <<outer, repo, cache, impGraph, resultErr, gets, hostOrig>>

\* downloadSingle lines 700-704: the file is written into the import
\* cache under cacheLock, and the goroutine ends
DownloadStore(t) ==
    /\ tasks[t].pc = "store"
    /\ cache' = [cache EXCEPT ![tasks[t].src] = tasks[t].file]
    /\ EndFrame(tasks, t, resultErr, "true")
    /\ UNCHANGED <<outer, rootFile, repo, impGraph, resultErr, gets,
                   mergeLog, hostOrig>>

\* ------------------------------------------------------------- facade
\* compileImports lines 524-548 and 706: a file without imports returns
\* nil at once; otherwise a fresh graph and error accumulator are set up
\* and importSingle("root", root) starts. mergeLog is the history of this
\* call.
CompileImportsStart(f) ==
    /\ hostOrig' = f
    /\ impGraph' = {}
    /\ resultErr' = <<>>
    /\ mergeLog' = <<>>
    /\ IF Len(f.imports) = 0
       THEN /\ impRet' = "nil"
            /\ tasks' = <<>>
       ELSE /\ impRet' = "none"
            /\ tasks' = <<[src |-> RootName, par |-> 0, idx |-> 0,
                           pc |-> "loop", i |-> 1, file |-> <<f>>,
                           ret |-> "none", cached |-> <<>>, cycles |-> {},
                           slots |-> [j \in DOMAIN f.imports |-> <<>>]]>>

\* MinCompile lines 356-361
MinCompileCall ==
    /\ cpc = "MinCompile"
    /\ cpc' = "imports"
    /\ CompileImportsStart(rootFile)
    /\ UNCHANGED <<conf, compileErr, writes, depVars, graphVars,
                   rootFile, impStore>>

\* MinCompile lines 361-369 (and Compile lines 313-316): on an error
\* nothing is returned; otherwise the root vertex is added to the graph
MinCompileReturn ==
    /\ cpc = "imports"
    /\ impRet # "none"
    /\ IF impRet = "err"
       THEN /\ cpc' = "failed"
            /\ compileErr' = "imports"
            /\ vertices' = vertices
       ELSE /\ cpc' = IF api = "Compile" THEN "rootValidate" ELSE "done"
            /\ compileErr' = compileErr
            /\ vertices' = <<[file |-> rootFile, dir |-> ""]>>
    /\ UNCHANGED <<conf, writes, depVars, edges, valErrs, walked,
                   rootFile, impVars, impWorld>>

\* ------------------------------------------------------------- Compile
\* the caller's call has returned an error
Fail(kind) ==
    /\ cpc' = "failed"
    /\ compileErr' = kind

\* compileVersion lines 710-719 as called at lines 286-288: os.Create may
\* fail, and so may the write into the created file
CompileWriteVersion ==
    /\ cpc = "Compile"
    /\ \E out \in {"ok", "createfail", "writefail"} :
         /\ writes' = IF out = "createfail" THEN writes
                      ELSE Append(writes, "version")
         /\ IF out = "ok"
            THEN cpc' = "rootID" /\ compileErr' = compileErr
            ELSE Fail("version")
    /\ UNCHANGED <<conf, depVars, graphVars, rootFile, impVars,
                   impWorld>>

\* the UUID the .ottoid file beside the Appfile of key k holds
UUID(k) ==
    CASE k = "a" -> "uuid-a"
      [] k = "b" -> "uuid-b"
      [] k = "c" -> "uuid-c"
      [] OTHER -> "uuid-r"

\* Compile lines 292-310: a root with a path gets its ID file checked,
\* written when missing, and loaded; each of the three steps may fail
CompileRootID ==
    /\ cpc = "rootID"
    /\ IF rootFile.path = ""
       THEN /\ cpc' = "MinCompile"
            /\ UNCHANGED <<compileErr, rootFile>>
       ELSE \E out \in {"ok", "hasID", "initID", "loadID"} :
              IF out = "ok"
              THEN /\ cpc' = "MinCompile"
                   /\ rootFile' = [rootFile EXCEPT !.id = UUID(RootKey)]
                   /\ compileErr' = compileErr
              ELSE /\ Fail(out)
                   /\ rootFile' = rootFile
    /\ UNCHANGED <<conf, writes, depVars, graphVars, impVars, impWorld>>

\* Compile lines 318-321: File.Validate of the root
CompileValidateRoot ==
    /\ cpc = "rootValidate"
    /\ \E valid \in BOOLEAN :
         IF valid THEN cpc' = "depsStart" /\ compileErr' = compileErr
         ELSE Fail("rootinvalid")
    /\ UNCHANGED <<conf, writes, depVars, graphVars, rootFile, impVars,
                   impWorld>>

\* Compile lines 323-333 and compileDependencies lines 372-393: the root
\* is stored in the vertex map under its own key and seeds the worklist
CompileDepsStart ==
    /\ cpc = "depsStart"
    /\ cpc' = "deps"
    /\ vertexMap' = [k \in DOMAIN vertexMap |->
                        IF <<k>> = Detect(".", vertices[1].file.path)
                        THEN 1 ELSE 0]
    /\ queue' = <<1>>
    /\ cur' = 0
    /\ di' = 0
    /\ UNCHANGED <<conf, compileErr, writes, depKey, depf, deprepo,
                   events, graphVars, rootFile, impVars, impWorld>>

\* the inner loop over the dependencies of the current vertex is over
CurDone == IF cur = 0 THEN TRUE ELSE di > Len(vertices[cur].file.deps)

\* the dependency entry at hand and the key getter.Detect gives for it
InLoop == cpc = "deps" /\ ~CurDone
CurDep == vertices[cur].file.deps[di]
CurKey == Detect(CurDep, vertices[cur].file.path)

\* compileDependencies lines 397-401: the last vertex queued is taken
DepPop ==
    /\ cpc = "deps"
    /\ CurDone
    /\ queue # <<>>
    /\ cur' = queue[Len(queue)]
    /\ queue' = SubSeq(queue, 1, Len(queue) - 1)
    /\ di' = 1
    /\ UNCHANGED <<cpc, conf, compileErr, writes, vertexMap, depKey,
                   depf, deprepo, events, graphVars, rootFile, impVars,
                   impWorld>>

\* compileDependencies lines 397 and 513, Compile lines 333-335
DepsReturn ==
    /\ cpc = "deps"
    /\ CurDone
    /\ queue = <<>>
    /\ cpc' = "validate"
    /\ UNCHANGED <<conf, compileErr, writes, depVars, graphVars,
                   rootFile, impVars, impWorld>>

\* a return of an error from inside the loops of compileDependencies
\* (lines 407, 424, 428, 436, 442, 448, 456, 467, 472), which Compile
\* hands on (lines 333-335)
DepError(kind) == Fail(kind)

\* compileDependencies lines 403-409: getter.Detect rejects the source
DepBadSource ==
    /\ InLoop
    /\ CurKey = <<>>
    /\ DepError("source")
    /\ UNCHANGED <<conf, writes, depVars, graphVars, rootFile, impVars,
                   impWorld>>

\* compileDependencies lines 411 and 509: the key has a vertex already,
\* only the edge is added
DepConnect ==
    /\ InLoop
    /\ CurKey # <<>>
    /\ vertexMap[CurKey[1]] # 0
    /\ edges' = edges \cup {<<cur, vertexMap[CurKey[1]]>>}
    /\ di' = di + 1
    /\ UNCHANGED <<cpc, conf, compileErr, writes, vertexMap, queue, cur,
                   depKey, depf, deprepo, events, vertices, valErrs, walked,
                   rootFile, impVars, impWorld>>

\* the import lists the Appfile of dependency k may declare: a may import,
\* b does not
DepImportLists(k) == IF k = "a" THEN CompileImportLists ELSE {<<>>}

\* What the repository of dependency k can hold: Storage.Get, Storage.Dir,
\* os.Stat or ParseFile fail, there is no Appfile, or an Appfile with an
\* import list and a dependency list; ottoid tells whether the directory
\* holds an .ottoid file.
DepWorlds(k) ==
    {[status |-> s, imports |-> <<>>, deps |-> <<>>, ottoid |-> FALSE] :
        s \in {"getfail", "dirfail", "statfail", "parsefail"}}
    \cup
    {[status |-> "noappfile", imports |-> <<>>, deps |-> <<>>,
      ottoid |-> o] : o \in BOOLEAN}
    \cup
    {[status |-> "ok", imports |-> q, deps |-> d, ottoid |-> o] :
        q \in DepImportLists(k), d \in NestedDepLists, o \in BOOLEAN}

DepWorldOf(k) == IF deprepo[k] = <<>> THEN DepWorlds(k) ELSE {deprepo[k][1]}

\* the infrastructure settings the Appfile of dependency k declares
DepInfra(k) == IF k = "a" THEN "infra-a" ELSE "infra-b"
DepProject(k) == IF k = "a" THEN <<"pinfra-a">> ELSE <<>>

\* ParseFile on the Appfile of dependency k: the file with its path, and
\* its ID loaded from the .ottoid file beside it when there is one
ParseDep(k, w) ==
    [MkFile(k, IF w.ottoid THEN UUID(k) ELSE "", k, w.imports)
        EXCEPT !.deps = w.deps, !.infra = DepInfra(k),
               !.project = DepProject(k)]

\* faulty variant: Storage.Get is called before the Callback
FetchEventsGetFirst(k) ==
    <<[call |-> "get", key |-> k]>>
    \o (IF opts.callback THEN <<[call |-> "callback", key |-> k]>>
        ELSE <<>>)

\* compileDependencies lines 415-425: the Callback, when set, and
\* Storage.Get are called for the key
FetchEvents(k) ==
    (IF opts.callback THEN <<[call |-> "callback", key |-> k]>> ELSE <<>>)
    \o <<[call |-> "get", key |-> k]>>

\* the key is not in the vertex map: the dependency is loaded
NewDep == InLoop /\ CurKey # <<>> /\ vertexMap[CurKey[1]] = 0

\* compileDependencies lines 412-445: Storage.Get, Storage.Dir, os.Stat or
\* ParseFile fails
DepFetchFail ==
    /\ NewDep
    /\ \E w \in DepWorldOf(CurKey[1]) :
         /\ w.status \notin {"ok", "noappfile"}
         /\ deprepo' = [deprepo EXCEPT ![CurKey[1]] = <<w>>]
         /\ DepError(w.status)
    /\ events' = events \o FetchEvents(CurKey[1])
    /\ UNCHANGED <<conf, writes, vertexMap, queue, cur, di, depKey,
                   depf, graphVars, rootFile, impVars, impWorld>>

\* compileDependencies lines 412-439: the directory holds no Appfile, f
\* stays nil
DepFetchNoAppfile ==
    /\ NewDep
    /\ \E w \in DepWorldOf(CurKey[1]) :
         /\ w.status = "noappfile"
         /\ deprepo' = [deprepo EXCEPT ![CurKey[1]] = <<w>>]
    /\ events' = events \o FetchEvents(CurKey[1])
    /\ depKey' = CurKey[1]
    /\ depf' = <<>>
    /\ cpc' = "loader"
    /\ UNCHANGED <<conf, compileErr, writes, vertexMap, queue, cur, di,
                   graphVars, rootFile, impVars, impWorld>>

\* compileDependencies lines 412-447: the Appfile is parsed and
\* compileImports(f) is called
DepFetchParsed ==
    /\ NewDep
    /\ \E w \in DepWorldOf(CurKey[1]) :
         /\ w.status = "ok"
         /\ deprepo' = [deprepo EXCEPT ![CurKey[1]] = <<w>>]
         /\ depf' = <<ParseDep(CurKey[1], w)>>
         /\ CompileImportsStart(ParseDep(CurKey[1], w))
    /\ events' = events \o FetchEvents(CurKey[1])
    /\ depKey' = CurKey[1]
    /\ cpc' = "depimports"
    /\ UNCHANGED <<conf, compileErr, writes, vertexMap, queue, cur, di,
                   graphVars, rootFile, impStore>>

\* compileDependencies lines 447-449: compileImports(f) has returned; f is
\* the file the root frame merged into
DepImportsReturn ==
    /\ cpc = "depimports"
    /\ impRet # "none"
    /\ IF impRet = "err"
       THEN /\ DepError("imports")
            /\ depf' = depf
       ELSE /\ cpc' = "loader"
            /\ compileErr' = compileErr
            /\ depf' = IF tasks = <<>> THEN depf
                       ELSE tasks[RootTask].file
    /\ UNCHANGED <<conf, writes, vertexMap, queue, cur, di, depKey,
                   deprepo, events, graphVars, rootFile, impVars, impWorld>>

\* a File the Loader builds itself: for the directory when f is nil, from
\* the application of f otherwise; its ID is not loaded
Fresh(f, k) ==
    IF f = <<>>
    THEN [MkFile(k, "", k, <<>>) EXCEPT !.infra = DepInfra(k)]
    ELSE [f[1] EXCEPT !.id = ""]

\* compileDependencies lines 452-459: without a Loader f stays as it is;
\* a Loader fails, returns f as it got it, or returns a File of its own
LoaderResults(f, k) ==
    IF ~opts.loader THEN {[err |-> FALSE, file |-> f]}
    ELSE {[err |-> TRUE, file |-> <<>>],
          [err |-> FALSE, file |-> f],
          [err |-> FALSE, file |-> <<Fresh(f, k)>>]}

LoaderEvents(k) ==
    IF opts.loader THEN <<[call |-> "loader", key |-> k]>> ELSE <<>>

\* File.hasID lines 465-482: stat of the .ottoid file beside the Appfile
HasIDOutcomes(f) ==
    {"err"} \cup
    {IF deprepo[f.key][1].ottoid THEN "present" ELSE "absent"}

\* faulty variant: a dependency without a project is left without one
PropagateKeepsNoProject(f, root) ==
    [f EXCEPT !.infra = root.infra,
              !.project = IF root.project # <<>> /\ @ # <<>>
                          THEN root.project ELSE @]

\* compileDependencies lines 484-492: the root's infrastructure choice is
\* written into the dependency, its project created when it has none
Propagate(f, root) ==
    [f EXCEPT !.infra = root.infra,
              !.project = IF root.project # <<>> THEN root.project ELSE @]

\* faulty variant: the new vertex is not queued
EnqueueDropped(q, v) == q

\* compileDependencies line 505
Enqueue(q, v) == Append(q, v)

\* compileDependencies lines 453-458: the Loader fails
DepLoaderFail ==
    /\ cpc = "loader"
    /\ \E r \in LoaderResults(depf, depKey) : r.err
    /\ events' = events \o LoaderEvents(depKey)
    /\ DepError("loader")
    /\ UNCHANGED <<conf, writes, vertexMap, queue, cur, di, depKey,
                   depf, deprepo, graphVars, rootFile, impVars, impWorld>>

\* compileDependencies line 462: f is nil (no Appfile and no Loader, or
\* the Loader returned nil): the assignment dereferences a nil pointer
DepNilFile ==
    /\ cpc = "loader"
    /\ \E r \in LoaderResults(depf, depKey) : ~r.err /\ r.file = <<>>
    /\ events' = events \o LoaderEvents(depKey)
    /\ cpc' = "panic"
    /\ UNCHANGED <<conf, compileErr, writes, vertexMap, queue, cur, di,
                   depKey, depf, deprepo, graphVars, rootFile, impVars,
                   impWorld>>

\* compileDependencies lines 453-482: f.Source is set, then the check for
\* the ID file fails or finds none
DepNoID ==
    /\ cpc = "loader"
    /\ \E r \in LoaderResults(depf, depKey) :
         /\ ~r.err /\ r.file # <<>>
         /\ \E h \in HasIDOutcomes(r.file[1]) :
              /\ h # "present"
              /\ DepError(IF h = "err" THEN "hasID" ELSE "noid")
         /\ depf' = <<[r.file[1] EXCEPT !.source = depKey]>>
    /\ events' = events \o LoaderEvents(depKey)
    /\ UNCHANGED <<conf, writes, vertexMap, queue, cur, di, depKey,
                   deprepo, graphVars, rootFile, impVars, impWorld>>

\* compileDependencies lines 453-509: f.Source is set, the ID file is
\* there, the root's infrastructure is propagated, and the vertex is
\* added, mapped, queued and connected
DepAdded ==
    /\ cpc = "loader"
    /\ \E r \in LoaderResults(depf, depKey) :
         /\ ~r.err /\ r.file # <<>>
         /\ "present" \in HasIDOutcomes(r.file[1])
         /\ LET f == Propagate([r.file[1] EXCEPT !.source = depKey],
                               vertices[1].file)
                v == Len(vertices) + 1
            IN  /\ depf' = <<f>>
                /\ vertices' = Append(vertices, [file |-> f, dir |-> depKey])
                /\ vertexMap' = [vertexMap EXCEPT ![depKey] = v]
                /\ queue' = Enqueue(queue, v)
                /\ edges' = edges \cup {<<cur, v>>}
    /\ events' = events \o LoaderEvents(depKey)
    /\ di' = di + 1
    /\ cpc' = "deps"
    /\ UNCHANGED <<conf, compileErr, writes, cur, depKey, deprepo,
                   valErrs, walked, rootFile, impVars, impWorld>>

\* ------------------------------------------------------------- Validate
\* the orders in which a set can be listed
Orders(S) ==
    {q \in SeqsUpTo(S, Cardinality(S)) :
        Len(q) = Cardinality(S) /\ Range(q) = S}

\* Compiled.Validate lines 100-114: one error per cycle Cycles() reports
ValidateStart ==
    /\ cpc = "validate"
    /\ \E q \in Orders(Cycles(edges)) :
         valErrs' = [n \in DOMAIN q |-> CycleErr("", q[n])]
    /\ walked' = {}
    /\ cpc' = "walk"
    /\ UNCHANGED <<conf, compileErr, writes, depVars, vertices, edges,
                   rootFile, impVars, impWorld>>

\* faulty variant: the walk does not wait for the vertices a vertex points to
WalkReadyAny(v) == v \in DOMAIN vertices

\* dag.AcyclicGraph.Walk as called at line 118: the callback of a vertex
\* runs once the callbacks of the targets of all its edges have returned
WalkReady(v) == \A e \in edges : e[1] = v => e[2] \in walked

\* Compiled.Validate lines 118-132: the callback of one vertex; File.Validate
\* of the root has passed before (Compile line 319)
WalkVisit(v) ==
    /\ cpc = "walk"
    /\ v \notin walked
    /\ WalkReady(v)
    /\ \E valid \in BOOLEAN :
         /\ v = 1 => valid
         /\ valErrs' = IF valid THEN valErrs
                       ELSE Append(valErrs,
                                   Err("invalid", vertices[v].file.source))
    /\ walked' = walked \cup {v}
    /\ UNCHANGED <<cpc, conf, compileErr, writes, depVars, vertices,
                   edges, rootFile, impVars, impWorld>>

\* faulty variant: the result of Validate is not looked at
ValidatePassedAlways(errs) == errs = errs

\* Compile line 338: Validate returned nil
ValidatePassed(errs) == errs = <<>>

\* Compiled.Validate line 134 and Compile lines 338-340: the walk is over
ValidateReturn ==
    /\ cpc = "walk"
    /\ walked = DOMAIN vertices
    /\ IF ValidatePassed(valErrs)
       THEN cpc' = "write" /\ compileErr' = compileErr
       ELSE Fail("validate")
    /\ UNCHANGED <<conf, writes, depVars, graphVars, rootFile, impVars,
                   impWorld>>

\* compileWrite lines 721-736 as called at lines 343-347: marshalling or
\* os.Create may fail before anything is written, io.Copy after
CompileWrite ==
    /\ cpc = "write"
    /\ \E out \in {"ok", "marshalfail", "createfail", "copyfail"} :
         /\ writes' = IF out \in {"ok", "copyfail"}
                      THEN Append(writes, "Appfile.compiled")
                      ELSE writes
         /\ IF out = "ok"
            THEN cpc' = "done" /\ compileErr' = compileErr
            ELSE Fail("write")
    /\ UNCHANGED <<conf, depVars, graphVars, rootFile, impVars,
                   impWorld>>

\* the entry of the history that marks the start of a further Compile
\* call; it holds the error the call before returned, "" for none
CallMark(err) == [call |-> "Compile", key |-> err]

\* the number of Compile calls made so far
CompileCalls ==
    1 + Cardinality({n \in DOMAIN events : events[n].call = "Compile"})

\* Compile lines 284 and 358: Compile is called again on the same Compiler
\* with the same *File, as soon as the call before has returned; the
\* Compiled value and its graph are built anew, the Compiler keeps its
\* import cache and its storages
CompileAgain ==
    /\ api = "Compile"
    /\ cpc \in {"done", "failed"}
    /\ CompileCalls < MaxCompiles
    /\ cpc' = "Compile"
    /\ compileErr' = ""
    /\ vertices' = <<>>
    /\ edges' = {}
    /\ events' = Append(events, CallMark(compileErr))
    /\ UNCHANGED <<conf, writes, vertexMap, queue, cur, di, depKey, depf,
                   deprepo, valErrs, walked, rootFile, impVars, impWorld>>

\* ------------------------------------------------------------- LoadCompiled
\* the characters a version file may hold
VsnChars == {"0", "1", "2", "8", "x", "-", "+"}

\* the value of a digit character, as strconv reads it
DigitVal(c) ==
    CASE c = "0" -> 0
      [] c = "1" -> 1
      [] c = "2" -> 2
      [] c = "8" -> 8
      [] c = "x" -> 33
      [] OTHER -> 255

\* strconv.ParseUint: the digits of s in the given base, from the n-th
\* character on, acc being the value of the characters before; <<>> on a
\* character that is not a digit of the base
RECURSIVE ParseDigits(_, _, _, _)
ParseDigits(s, base, n, acc) ==
    IF n > Len(s) THEN <<acc>>
    ELSE IF DigitVal(s[n]) >= base THEN <<>>
    ELSE ParseDigits(s, base, n + 1, acc * base + DigitVal(s[n]))

\* strconv.ParseUint(s, 0, 64): an empty string is an error; a leading
\* "0x" followed by at least one character selects base 16, any other
\* leading "0" base 8, anything else base 10
ParseUint(s) ==
    IF s = <<>> THEN <<>>
    ELSE IF s[1] = "0" /\ Len(s) >= 3 /\ s[2] = "x"
         THEN ParseDigits(s, 16, 3, 0)
    ELSE IF s[1] = "0" THEN ParseDigits(s, 8, 2, 0)
    ELSE ParseDigits(s, 10, 1, 0)

\* strconv.ParseInt(s, 0, 0) as called at line 222: one optional sign, then
\* ParseUint; <<>> on an error
ParseInt(s) ==
    IF s = <<>> THEN <<>>
    ELSE IF s[1] \in {"+", "-"}
         THEN LET u == ParseUint(SubSeq(s, 2, Len(s)))
              IN  IF u = <<>> THEN <<>>
                  ELSE IF s[1] = "-" THEN <<0 - u[1]>> ELSE u
    ELSE ParseUint(s)

\* faulty variant: the gate also refuses the current version
VersionTooNewOrEqual(v) == v >= CompileVersion

\* LoadCompiled line 228
VersionTooNew(v) == v > CompileVersion

\* what LoadCompiled returns
LoadResult(err, value) == [err |-> err, value |-> value]

\* LoadCompiled lines 216-248: the version file is read and parsed, a
\* version that is too new is refused, then Appfile.compiled is opened and
\* decoded
LoadCompiled ==
    /\ lpc = "call"
    /\ lpc' = "returned"
    /\ IF disk.version = <<>>
       THEN /\ vsn' = <<>>
            /\ loadLog' = loadLog
            /\ loadRet' = LoadResult("read", <<>>)
       ELSE /\ vsn' = ParseInt(disk.version[1])
            /\ IF vsn' = <<>>
               THEN /\ loadLog' = loadLog
                    /\ loadRet' = LoadResult("parse", <<>>)
               ELSE IF VersionTooNew(vsn'[1])
               THEN /\ loadLog' = loadLog
                    /\ loadRet' = LoadResult("version", <<>>)
               ELSE IF disk.compiled = "absent"
               THEN /\ loadLog' = [loadLog EXCEPT !.opened = TRUE]
                    /\ loadRet' = LoadResult("open", <<>>)
               ELSE IF disk.compiled = "corrupt"
               THEN /\ loadLog' = [opened |-> TRUE, decoded |-> TRUE]
                    /\ loadRet' = LoadResult("decode", <<>>)
               ELSE /\ loadLog' = [opened |-> TRUE, decoded |-> TRUE]
                    /\ loadRet' = LoadResult("", <<disk.compiled>>)
    /\ UNCHANGED <<cpc, api, opts, disk, compileErr, writes, depVars,
                   graphVars, rootFile, impVars, impWorld>>

\* ------------------------------------------------------------- MinCompile
\* the Appfiles a caller hands to MinCompile
RootFiles ==
    {MkFile("r", "", "r", q) : q \in SeqsUpTo(ImpSources, MaxImports)}

\* the state of a fresh Compiler (NewCompiler lines 251-269) before a call,
\* the dependency repositories apart
InitCompilerState ==
    /\ compileErr = ""
    /\ writes = <<>>
    /\ vertices = <<>>
    /\ edges = {}
    /\ vertexMap = [k \in AllDepKeys |-> 0]
    /\ queue = <<>>
    /\ cur = 0
    /\ di = 0
    /\ depKey = ""
    /\ depf = <<>>
    /\ events = <<>>
    /\ valErrs = <<>>
    /\ walked = {}

\* a fresh Compiler; what the dependency repositories hold shows when they
\* are fetched
InitCompiler ==
    /\ InitCompilerState
    /\ deprepo = [k \in DepKeys |-> <<>>]

\* no LoadCompiled call is made
InitNoLoad ==
    /\ lpc = "idle"
    /\ disk = [version |-> <<>>, compiled |-> "absent"]
    /\ vsn = <<>>
    /\ loadRet = [err |-> "", value |-> <<>>]
    /\ loadLog = [opened |-> FALSE, decoded |-> FALSE]

InitImports ==
    /\ cpc = "MinCompile"
    /\ api = "MinCompile"
    /\ opts = [loader |-> FALSE, callback |-> FALSE]
    /\ InitCompiler
    /\ InitNoLoad
    /\ rootFile \in RootFiles
    /\ repo = [k \in ImpKeys |-> <<>>]
    /\ cache = [k \in ImpKeys |-> <<>>]
    /\ tasks = <<>>
    /\ impGraph = {}
    /\ resultErr = <<>>
    /\ impRet = "none"
    /\ gets = [k \in ImpKeys |-> 0]
    /\ mergeLog = <<>>
    /\ hostOrig = rootFile

NextImports ==
    \/ MinCompileCall
    \/ \E t \in DOMAIN tasks : DownloadLookupHit(t)
    \/ \E t \in DOMAIN tasks : DownloadCacheHit(t)
    \/ \E t \in DOMAIN tasks : DownloadLookupMiss(t)
    \/ \E t \in DOMAIN tasks : DownloadGet(t)
    \/ \E t \in DOMAIN tasks : DownloadFail(t)
    \/ \E t \in DOMAIN tasks : DownloadParsed(t)
    \/ \E t \in DOMAIN tasks : ImportBadSource(t)
    \/ \E t \in DOMAIN tasks : ImportCycleFound(t)
    \/ \E t \in DOMAIN tasks : ImportCycle(t)
    \/ \E t \in DOMAIN tasks : ImportSpawn(t)
    \/ \E t \in DOMAIN tasks : ImportNilSlot(t)
    \/ \E t \in DOMAIN tasks : ImportMergeRefused(t)
    \/ \E t \in DOMAIN tasks : ImportMergeFail(t)
    \/ \E t \in DOMAIN tasks : ImportMerged(t)
    \/ \E t \in DOMAIN tasks : DownloadStore(t)
    \/ MinCompileReturn

SpecImports == InitImports /\ [][NextImports]_vars

\* ------------------------------------------------------------- two cycles
\* Four importable repositories in two pairs, so that the import graph can
\* hold two cycles at once: x and y may import each other, z and w too.
CycleKeys == ImpKeys \cup {"w"}

PairOf(k) ==
    CASE k = "x" -> "y"
      [] k = "y" -> "x"
      [] k = "z" -> "w"
      [] OTHER -> "z"

\* what the repository of key k can hold: an Appfile that imports the other
\* key of its pair or nothing; z may also carry a source Detect rejects,
\* and w may fail to be fetched or hold an Appfile Merge refuses
PairWorlds(k) ==
    {[status |-> "ok", imports |-> q, mergeable |-> TRUE] :
        q \in {<<>>, <<PairOf(k)>>} \cup
              (IF k = "z" THEN {<<BadSource>>} ELSE {})}
    \cup
    (IF k = "w"
     THEN {[status |-> "getfail", imports |-> <<>>, mergeable |-> TRUE],
           [status |-> "ok", imports |-> <<>>, mergeable |-> FALSE]}
     ELSE {})

InitCycles ==
    /\ cpc = "MinCompile"
    /\ api = "MinCompile"
    /\ opts = [loader |-> FALSE, callback |-> FALSE]
    /\ InitCompiler
    /\ InitNoLoad
    /\ rootFile \in {MkFile("r", "", "r", q) :
                        q \in SeqsUpTo(CycleKeys \cup {BadSource},
                                       MaxImports)}
    /\ repo \in {[k \in CycleKeys |-> <<f[k]>>] :
                    f \in {g \in [CycleKeys ->
                                    UNION {PairWorlds(k) : k \in CycleKeys}] :
                              \A k \in CycleKeys : g[k] \in PairWorlds(k)}}
    /\ cache = [k \in CycleKeys |-> <<>>]
    /\ tasks = <<>>
    /\ impGraph = {}
    /\ resultErr = <<>>
    /\ impRet = "none"
    /\ gets = [k \in CycleKeys |-> 0]
    /\ mergeLog = <<>>
    /\ hostOrig = rootFile

SpecCycles == InitCycles /\ [][NextImports]_vars

\* ------------------------------------------------------------- Compile
\* the Appfiles a caller hands to Compile
CompileRootFiles ==
    {[MkFile(RootKey, "", RootKey, q)
         EXCEPT !.deps = d, !.infra = "infra-r", !.project = p] :
        q \in CompileImportLists,
        d \in SeqsUpTo(RootDepSources, MaxDeps),
        p \in {<<>>, <<"pinfra-r">>}}

\* In the behaviours of Compile two importable repositories, x and y, can
\* be reached; fetching the third fails.  (Longer chains of imports are
\* the matter of SpecImports.)
Unreachable == [status |-> "getfail", imports |-> <<>>, mergeable |-> TRUE]

Init ==
    /\ cpc = "Compile"
    /\ api = "Compile"
    /\ opts \in [loader : BOOLEAN, callback : BOOLEAN]
    /\ InitCompiler
    /\ InitNoLoad
    /\ rootFile \in CompileRootFiles
    /\ repo = [k \in ImpKeys |-> IF k = "z" THEN <<Unreachable>> ELSE <<>>]
    /\ cache = [k \in ImpKeys |-> <<>>]
    /\ tasks = <<>>
    /\ impGraph = {}
    /\ resultErr = <<>>
    /\ impRet = "none"
    /\ gets = [k \in ImpKeys |-> 0]
    /\ mergeLog = <<>>
    /\ hostOrig = rootFile

Next ==
    \/ CompileWriteVersion
    \/ CompileRootID
    \/ MinCompileCall
    \/ \E t \in DOMAIN tasks : DownloadLookupHit(t)
    \/ \E t \in DOMAIN tasks : DownloadCacheHit(t)
    \/ \E t \in DOMAIN tasks : DownloadLookupMiss(t)
    \/ \E t \in DOMAIN tasks : DownloadCallback(t)
    \/ \E t \in DOMAIN tasks : DownloadGet(t)
    \/ \E t \in DOMAIN tasks : DownloadFail(t)
    \/ \E t \in DOMAIN tasks : DownloadParsed(t)
    \/ \E t \in DOMAIN tasks : ImportBadSource(t)
    \/ \E t \in DOMAIN tasks : ImportCycleFound(t)
    \/ \E t \in DOMAIN tasks : ImportCycle(t)
    \/ \E t \in DOMAIN tasks : ImportSpawn(t)
    \/ \E t \in DOMAIN tasks : ImportNilSlot(t)
    \/ \E t \in DOMAIN tasks : ImportMergeRefused(t)
    \/ \E t \in DOMAIN tasks : ImportMergeFail(t)
    \/ \E t \in DOMAIN tasks : ImportMerged(t)
    \/ \E t \in DOMAIN tasks : DownloadStore(t)
    \/ MinCompileReturn
    \/ CompileValidateRoot
    \/ CompileDepsStart
    \/ DepPop
    \/ DepsReturn
    \/ DepBadSource
    \/ DepConnect
    \/ DepFetchFail
    \/ DepFetchNoAppfile
    \/ DepFetchParsed
    \/ DepImportsReturn
    \/ DepLoaderFail
    \/ DepNilFile
    \/ DepNoID
    \/ DepAdded
    \/ ValidateStart
    \/ \E v \in DOMAIN vertices : WalkVisit(v)
    \/ ValidateReturn
    \/ CompileWrite

Spec == Init /\ [][Next]_vars

\* ------------------------------------------------------------- Compile twice
\* Compile is called up to MaxCompiles times on one Compiler with one
\* Appfile that declares no imports of its own; Loader and Callback are set.
\* The Appfile of a dependency declares at most one import: compileImports
\* then starts the only download goroutine of a frame after the last early
\* return of its loop (lines 571, 591, 596), so that every goroutine of a
\* call has ended when Compile returns and a later call runs alone.
RecompileWorlds == {w \in DepWorlds("a") : Len(w.imports) <= 1}

InitRecompile ==
    /\ cpc = "Compile"
    /\ api = "Compile"
    /\ opts = [loader |-> TRUE, callback |-> TRUE]
    /\ InitCompilerState
    /\ InitNoLoad
    /\ deprepo \in {[k \in DepKeys |-> IF k = "a" THEN <<w>> ELSE <<>>] :
                       w \in RecompileWorlds}
    /\ rootFile \in {f \in CompileRootFiles :
                        f.imports = <<>> /\ f.project = <<>>}
    /\ repo = [k \in ImpKeys |-> IF k = "z" THEN <<Unreachable>> ELSE <<>>]
    /\ cache = [k \in ImpKeys |-> <<>>]
    /\ tasks = <<>>
    /\ impGraph = {}
    /\ resultErr = <<>>
    /\ impRet = "none"
    /\ gets = [k \in ImpKeys |-> 0]
    /\ mergeLog = <<>>
    /\ hostOrig = rootFile

NextRecompile ==
    \/ Next
    \/ CompileAgain

SpecRecompile == InitRecompile /\ [][NextRecompile]_vars

\* ------------------------------------------------------------- worklist order
\* Three dependency repositories, so that the order in which queued
\* vertices are taken decides which of them reaches a key first.
OrderKeys == DepKeys \cup {"c"}

\* faulty variant: the vertices queued after the one taken are dropped
DepPopDropsRest ==
    /\ cpc = "deps"
    /\ CurDone
    /\ queue # <<>>
    /\ \E n \in DOMAIN queue :
         /\ cur' = queue[n]
         /\ queue' = SubSeq(queue, 1, n - 1)
    /\ di' = 1
    /\ UNCHANGED <<cpc, conf, compileErr, writes, vertexMap, depKey,
                   depf, deprepo, events, graphVars, rootFile, impVars,
                   impWorld>>

\* compileDependencies lines 397-401 with the order of the worklist left
\* open: any queued vertex is taken.  The code takes the last one
\* (n = Len(queue), which is DepPop); a FIFO worklist takes the first.
DepPopAny ==
    /\ cpc = "deps"
    /\ CurDone
    /\ queue # <<>>
    /\ \E n \in DOMAIN queue :
         /\ cur' = queue[n]
         /\ queue' = SubSeq(queue, 1, n - 1)
                     \o SubSeq(queue, n + 1, Len(queue))
    /\ di' = 1
    /\ UNCHANGED <<cpc, conf, compileErr, writes, vertexMap, depKey,
                   depf, deprepo, events, graphVars, rootFile, impVars,
                   impWorld>>

\* what the repository of dependency k holds: an Appfile with an .ottoid
\* file, no imports and at most one dependency entry; c may also fail to
\* be fetched, hold no Appfile, lack the .ottoid file, or carry a source
\* Detect rejects
OrderWorlds(k) ==
    {[status |-> "ok", imports |-> <<>>, deps |-> d, ottoid |-> TRUE] :
        d \in {<<>>} \cup {<<s>> : s \in OrderKeys}}
    \cup
    (IF k = "c"
     THEN {[status |-> "getfail", imports |-> <<>>, deps |-> <<>>,
            ottoid |-> FALSE],
           [status |-> "noappfile", imports |-> <<>>, deps |-> <<>>,
            ottoid |-> TRUE],
           [status |-> "ok", imports |-> <<>>, deps |-> <<>>,
            ottoid |-> FALSE],
           [status |-> "ok", imports |-> <<>>, deps |-> <<BadSource>>,
            ottoid |-> TRUE]}
     ELSE {})

InitOrder ==
    /\ cpc = "Compile"
    /\ api = "Compile"
    /\ opts = [loader |-> FALSE, callback |-> FALSE]
    /\ compileErr = ""
    /\ writes = <<>>
    /\ vertices = <<>>
    /\ edges = {}
    /\ vertexMap = [k \in OrderKeys \cup {RootKey} |-> 0]
    /\ queue = <<>>
    /\ cur = 0
    /\ di = 0
    /\ depKey = ""
    /\ depf = <<>>
    /\ deprepo \in {[k \in OrderKeys |-> <<f[k]>>] :
                       f \in {g \in [OrderKeys ->
                                       UNION {OrderWorlds(k) :
                                                 k \in OrderKeys}] :
                                 \A k \in OrderKeys :
                                     g[k] \in OrderWorlds(k)}}
    /\ events = <<>>
    /\ valErrs = <<>>
    /\ walked = {}
    /\ InitNoLoad
    /\ rootFile \in {[MkFile(RootKey, "", RootKey, <<>>)
                        EXCEPT !.deps = d, !.infra = "infra-r",
                               !.project = <<"pinfra-r">>] :
                        d \in SeqsUpTo(OrderKeys, MaxDeps)}
    /\ repo = [k \in ImpKeys |-> <<>>]
    /\ cache = [k \in ImpKeys |-> <<>>]
    /\ tasks = <<>>
    /\ impGraph = {}
    /\ resultErr = <<>>
    /\ impRet = "none"
    /\ gets = [k \in ImpKeys |-> 0]
    /\ mergeLog = <<>>
    /\ hostOrig = rootFile

NextOrder ==
    \/ CompileWriteVersion
    \/ CompileRootID
    \/ MinCompileCall
    \/ MinCompileReturn
    \/ CompileValidateRoot
    \/ CompileDepsStart
    \/ DepPopAny
    \/ DepsReturn
    \/ DepBadSource
    \/ DepConnect
    \/ DepFetchFail
    \/ DepFetchNoAppfile
    \/ DepFetchParsed
    \/ DepImportsReturn
    \/ DepNilFile
    \/ DepNoID
    \/ DepAdded
    \/ ValidateStart
    \/ \E v \in DOMAIN vertices : WalkVisit(v)
    \/ ValidateReturn
    \/ CompileWrite

SpecOrder == InitOrder /\ [][NextOrder]_vars

\* ------------------------------------------------------------- scheduling
\* Compile with a Loader and a Callback set and a root without a project,
\* under the scheduling of the Go runtime: a goroutine that can take a step
\* is not left waiting for ever, so the program does not stop while one of
\* its steps is possible.
InitLive ==
    /\ Init
    /\ opts = [loader |-> TRUE, callback |-> TRUE]
    /\ rootFile.project = <<>>

SpecLive == InitLive /\ [][Next]_vars /\ WF_vars(Next)

\* ------------------------------------------------------------- LoadCompiled
\* the lines a version file may hold
VersionLines == SeqsUpTo(VsnChars, MaxVsnLen)

\* the output directories LoadCompiled may be pointed at: the version file
\* missing or holding one line; Appfile.compiled missing, not decodable,
\* or the serialization of a Compiled value
Disks ==
    [version : {<<>>} \cup {<<l>> : l \in VersionLines},
     compiled : {"absent", "corrupt", "compiled-1", "compiled-2"}]

InitLoad ==
    /\ cpc = "idle"
    /\ api = "LoadCompiled"
    /\ opts = [loader |-> FALSE, callback |-> FALSE]
    /\ InitCompiler
    /\ rootFile = MkFile(RootKey, "", RootKey, <<>>)
    /\ repo = [k \in ImpKeys |-> <<>>]
    /\ cache = [k \in ImpKeys |-> <<>>]
    /\ tasks = <<>>
    /\ impGraph = {}
    /\ resultErr = <<>>
    /\ impRet = "none"
    /\ gets = [k \in ImpKeys |-> 0]
    /\ mergeLog = <<>>
    /\ hostOrig = rootFile
    /\ lpc = "call"
    /\ disk \in Disks
    /\ vsn = <<>>
    /\ loadRet = LoadResult("", <<>>)
    /\ loadLog = [opened |-> FALSE, decoded |-> FALSE]

NextLoad == LoadCompiled

SpecLoad == InitLoad /\ [][NextLoad]_vars

\* ------------------------------------------------------------ relations
\* the canonical keys an import list resolves to
ImportKeys(imps) ==
    {Detect(imps[n], "")[1] :
        n \in {m \in DOMAIN imps : Detect(imps[m], "") # <<>>}}

\* the import relation as fetched so far: the file handed to compileImports
\* under the name root, and every parsed Appfile under its key
ImportEdges ==
    {<<RootName, k>> : k \in ImportKeys(hostOrig.imports)}
    \cup
    {e \in (DOMAIN repo) \X (DOMAIN repo) :
        /\ repo[e[1]] # <<>>
        /\ repo[e[1]][1].status = "ok"
        /\ e[2] \in ImportKeys(repo[e[1]][1].imports)}

\* compileImports has returned to its caller
ImportsReturned == tasks # <<>> /\ impRet # "none"

\* the f.Merge calls made on the file of frame t, in order
MergesInto(t) ==
    LET IsHost(e) == e.host = t
    IN  SelectSeq(mergeLog, IsHost)

\* the file frame t resolves, as it was before the frame started
Pristine(t) ==
    IF t = RootTask THEN hostOrig
    ELSE MkFile(tasks[t].src, tasks[t].src, tasks[t].src,
                tasks[t].file[1].imports)

\* the file of frame t after its first n imports were merged into it
RECURSIVE MergedUpTo(_, _, _)
MergedUpTo(f, keys, n) ==
    IF n = 0 THEN f
    ELSE LET g == MergedUpTo(f, keys, n - 1)
         IN  [g EXCEPT !.content = @ \o cache[keys[n]][1].content]

\* ------------------------------------------------------------ Compile
\* Compile has returned a Compiled value
Succeeded == api = "Compile" /\ cpc = "done"

\* compileDependencies has returned nil
DepsSucceeded ==
    /\ api = "Compile"
    /\ \/ cpc \in {"validate", "walk", "write", "done"}
       \/ cpc = "failed" /\ compileErr \in {"validate", "write"}

\* the canonical key a vertex stands for
VKey(v) == IF v = 1 THEN RootKey ELSE vertices[v].dir

\* the canonical keys of the dependency entries of a file
DepKeysOfFile(f) ==
    {Detect(f.deps[n], f.path)[1] :
        n \in {m \in DOMAIN f.deps : Detect(f.deps[m], f.path) # <<>>}}

\* the dependency relation over keys, as the files of the graph declare it
KeyEdges ==
    UNION {{<<VKey(v), k>> : k \in DepKeysOfFile(vertices[v].file)} :
              v \in DOMAIN vertices}

\* ------------------------------------------------------------- C1
\* C1: the graph of every Compiled value a successful Compile returns has
\* no cycle, a self-edge included: no vertex is reached from itself along
\* one edge or more.
C1_CompiledGraphAcyclic ==
    Succeeded => \A v \in Vertices(edges) : v \notin Reach(v, edges)

\* Compile succeeded on three vertices with three edges between them
C1_Witness ==
    /\ Succeeded
    /\ Len(vertices) = 3
    /\ Cardinality(edges) = 3
    /\ walked = {1, 2, 3}

\* ------------------------------------------------------------- C2
\* C2: in a diamond of imports (root imports X and Y, X imports Z, Y
\* imports Z) Z is fetched at most once under every interleaving of the
\* downloads of X and Y.
Diamond(X, Y, Z) ==
    /\ Cardinality({X, Y, Z}) = 3
    /\ hostOrig.imports = <<X, Y>>
    /\ repo[X] # <<>> /\ repo[X][1].status = "ok"
    /\ repo[X][1].imports = <<Z>>
    /\ repo[Y] # <<>> /\ repo[Y][1].status = "ok"
    /\ repo[Y][1].imports = <<Z>>

C2_DiamondFetchedOnce ==
    \A X, Y, Z \in ImpKeys : Diamond(X, Y, Z) => gets[Z] <= 1

\* ------------------------------------------------------------- C3
\* C3: the f.Merge calls into a file are its imports in declaration
\* order, all of them once the resolution of the file has succeeded, and
\* none is made before every download of the file's imports was started
\* and has finished.
C3_MergeInDeclarationOrder ==
    \A t \in DOMAIN tasks :
        LET calls == MergesInto(t)
            imps == Pristine(t).imports
        IN  /\ calls # <<>> =>
                /\ Cardinality(Children(t)) = Len(imps)
                /\ Joined(t)
                /\ Len(calls) <= Len(imps)
                /\ \A n \in DOMAIN calls :
                       <<calls[n].imp>> = Detect(imps[n], "")
            /\ tasks[t].ret = "true" => Len(calls) = Len(imps)

\* two different imports were merged into the caller's file, in order
C3_Witness ==
    /\ tasks # <<>>
    /\ tasks[RootTask].ret = "true"
    /\ Len(MergesInto(RootTask)) = 2
    /\ MergesInto(RootTask)[1].imp # MergesInto(RootTask)[2].imp
    /\ rootFile.content =
          <<"r">> \o cache[MergesInto(RootTask)[1].imp][1].content
                  \o cache[MergesInto(RootTask)[2].imp][1].content

\* ------------------------------------------------------------- C4
HasError(kinds) == \E n \in DOMAIN resultErr : resultErr[n].kind \in kinds

\* C4 as stated: when the imports reachable from the root contain a
\* cycle (a file reached from itself along one import or more), resolution
\* returns a cycle error and no Merge has been made.
C4_CycleErrorBeforeAnyMerge ==
    LET looped == {k \in DOMAIN repo : k \in Reach(k, ImportEdges)}
    IN  (ImportsReturned /\ Reach(RootName, ImportEdges) \cap looped # {})
        => /\ impRet = "err"
           /\ HasError({"cycle"})
           /\ mergeLog = <<>>

\* C4 amended: when the imports reachable from the root contain a cycle,
\* resolution never returns nil, and no Merge has been made into the root
\* file or into any file that reaches the cycle (a file that does not
\* reach it may have had its imports merged); when moreover getter.Detect
\* rejects no import source of the root or of a file reachable from it,
\* the error returned holds a cycle error.
C4_CycleNeverResolves ==
    LET looped == {k \in DOMAIN repo : k \in Reach(k, ImportEdges)}
        reaches(v) == ({v} \cup Reach(v, ImportEdges)) \cap looped # {}
        declared(v) == IF v = RootName THEN hostOrig.imports
                       ELSE IF repo[v] = <<>> THEN <<>>
                       ELSE repo[v][1].imports
        rejected ==
            \E v \in {RootName} \cup Reach(RootName, ImportEdges) :
                \E n \in DOMAIN declared(v) :
                    Detect(declared(v)[n], "") = <<>>
    IN  (ImportsReturned /\ reaches(RootName))
        => /\ impRet = "err"
           /\ \A n \in DOMAIN mergeLog :
                  ~reaches(tasks[mergeLog[n].host].src)
           /\ ~rejected => HasError({"cycle"})

\* resolution returned with the error of a cycle of two imports, after
\* an import was merged into a file that does not reach the cycle
C4_Witness ==
    /\ ImportsReturned
    /\ impRet = "err"
    /\ mergeLog # <<>>
    /\ \E n \in DOMAIN resultErr :
          /\ resultErr[n].kind = "cycle"
          /\ Cardinality(resultErr[n].cyc) = 2
          /\ \A k \in resultErr[n].cyc : k \in Reach(k, ImportEdges)

\* ------------------------------------------------------------- C5
\* C5: after a successful compileDependencies no key has two vertices, the
\* keys of the vertices are the root's key and the keys reachable from it
\* along dependency entries, and the edges are exactly the pairs of a
\* vertex and the vertex of the key of one of its dependency entries.
C5_GraphIsDependencyClosure ==
    DepsSucceeded =>
        /\ \A v, w \in DOMAIN vertices : VKey(v) = VKey(w) => v = w
        /\ \A v \in DOMAIN vertices :
               \A n \in DOMAIN vertices[v].file.deps :
                   Detect(vertices[v].file.deps[n],
                          vertices[v].file.path) # <<>>
        /\ {VKey(v) : v \in DOMAIN vertices} =
               {RootKey} \cup Reach(RootKey, KeyEdges)
        /\ edges = {e \in (DOMAIN vertices) \X (DOMAIN vertices) :
                       VKey(e[2]) \in DepKeysOfFile(vertices[e[1]].file)}

\* compileDependencies returned with a key reached only through another
\* dependency, and a key two entries resolve to
C5_Witness ==
    /\ cpc = "validate"
    /\ Len(vertices) = 3
    /\ \E v \in DOMAIN vertices :
          /\ v # 1
          /\ <<1, v>> \notin edges
          /\ \E w \in DOMAIN vertices : w # 1 /\ <<w, v>> \in edges
    /\ \E v \in DOMAIN vertices :
          Cardinality({e \in edges : e[2] = v}) = 2

\* ------------------------------------------------------------- C6
\* C6: in the graph of a successful Compile every vertex but the root has
\* a file with a non-empty ID and a non-empty source, and the source is
\* the key the vertex is recorded under in the vertex map.
C6_DependencyIdentity ==
    Succeeded =>
        \A v \in DOMAIN vertices \ {1} :
            /\ vertices[v].file.id # ""
            /\ vertices[v].file.source # ""
            /\ vertexMap[vertices[v].file.source] = v

\* ------------------------------------------------------------- C7
\* C7: in the graph of a successful Compile the file of every vertex but
\* the root has the root's infrastructure, and when the root has a project
\* it has a project with the infrastructure of the root's project.
C7_InfrastructurePropagated ==
    Succeeded =>
        \A v \in DOMAIN vertices \ {1} :
            /\ vertices[v].file.infra = rootFile.infra
            /\ rootFile.project # <<>> =>
                  /\ vertices[v].file.project # <<>>
                  /\ vertices[v].file.project[1] = rootFile.project[1]

\* Compile succeeded for a root with a project and a dependency of a
\* dependency whose Appfile declares no project
C7_Witness ==
    /\ Succeeded
    /\ rootFile.project # <<>>
    /\ \E v \in DOMAIN vertices \ {1} :
          /\ <<1, v>> \notin edges
          /\ DepProject(VKey(v)) = <<>>
          /\ vertices[v].file.project = rootFile.project
          /\ vertices[v].file.infra = "infra-r"

\* ------------------------------------------------------------- C8
\* import resolution, root validation, dependency compilation and graph
\* validation of this Compile have all succeeded
AllStepsSucceeded ==
    /\ api = "Compile"
    /\ vertices # <<>>
    /\ impRet = "nil"
    /\ vertexMap[RootKey] = 1
    /\ queue = <<>>
    /\ CurDone
    /\ walked = DOMAIN vertices
    /\ valErrs = <<>>

\* C8 as stated: a file of the output directory is written only after
\* import resolution, root validation, dependency compilation and graph
\* validation have all succeeded.
C8_NoWriteBeforeAllSucceeded == writes # <<>> => AllStepsSucceeded

\* C8 amended: the version file is written first, before any of the
\* steps; Appfile.compiled is written only after import resolution, root
\* validation, dependency compilation and graph validation have all
\* succeeded, and a Compile that fails in one of them has written nothing
\* but the version file.
C8_CompiledWrittenAfterAllSucceeded ==
    /\ writes \in {<<>>, <<"version">>, <<"version", "Appfile.compiled">>}
    /\ (api = "Compile" /\ cpc \notin {"Compile", "failed"}) =>
           writes # <<>>
    /\ "Appfile.compiled" \in Range(writes) => AllStepsSucceeded
    /\ (cpc = "failed" /\ compileErr # "write") =>
           "Appfile.compiled" \notin Range(writes)

\* a Compile whose graph validation failed on a dependency, with the
\* version file written and nothing else
C8_Witness ==
    /\ cpc = "failed"
    /\ compileErr = "validate"
    /\ Len(vertices) > 1
    /\ valErrs # <<>>
    /\ writes = <<"version">>

\* ------------------------------------------------------------- C9
\* C9: LoadCompiled returns the version error exactly when the integer
\* read from the version file is greater than CompileVersion, and then
\* Appfile.compiled is neither opened nor decoded; for every integer up to
\* CompileVersion it opens and decodes Appfile.compiled and returns what
\* the decoding yields.
C9_VersionGateStrict ==
    lpc = "returned" =>
        /\ loadRet.err = "version" <=>
               (vsn # <<>> /\ vsn[1] > CompileVersion)
        /\ loadRet.err = "version" =>
               /\ ~loadLog.opened /\ ~loadLog.decoded
               /\ loadRet.value = <<>>
        /\ (vsn # <<>> /\ vsn[1] <= CompileVersion) =>
               /\ loadLog.opened
               /\ loadLog.decoded <=> disk.compiled # "absent"
               /\ IF disk.compiled \in {"absent", "corrupt"}
                  THEN loadRet.err \in {"open", "decode"}
                       /\ loadRet.value = <<>>
                  ELSE loadRet = LoadResult("", <<disk.compiled>>)

\* a version file holding the current version, written with a leading
\* zero, was accepted and the decoded value returned
C9_Witness ==
    /\ lpc = "returned"
    /\ disk.version = <<<<"0", "1">>>>
    /\ vsn = <<CompileVersion>>
    /\ loadRet = LoadResult("", <<"compiled-1">>)

\* ------------------------------------------------------------- C10
\* the resolution of the file of frame t returned an error
FrameFailed(t) ==
    IF t = RootTask THEN impRet = "err" ELSE tasks[t].ret = "false"

\* C10 as stated: when the resolution of a file returns an error, none of
\* its imports has been merged into it and it is as it was before.
C10_NoMergeOnError ==
    \A t \in DOMAIN tasks :
        FrameFailed(t) =>
            /\ \A n \in DOMAIN MergesInto(t) : ~MergesInto(t)[n].ok
            /\ tasks[t].file[1] = Pristine(t)

\* C10 amended: when the resolution of a file returns an error and no
\* f.Merge call of the file itself failed, none of its imports has been
\* merged into it and it is as it was before; when its n-th f.Merge call
\* failed, the n-1 imports before it are merged into it, in order.
C10_NoMergeUnlessMergeFailed ==
    \A t \in DOMAIN tasks :
        FrameFailed(t) =>
            LET calls == MergesInto(t)
                f == tasks[t].file[1]
            IN  IF calls = <<>> THEN f = Pristine(t)
                ELSE /\ ~calls[Len(calls)].ok
                     /\ \A n \in 1 .. Len(calls) - 1 : calls[n].ok
                     /\ f = MergedUpTo(Pristine(t),
                                       [n \in DOMAIN calls |-> calls[n].imp],
                                       Len(calls) - 1)

\* a resolution failed with one import fetched and another one missing,
\* and the fetched one was not merged
C10_Witness ==
    \E t \in DOMAIN tasks :
        /\ FrameFailed(t)
        /\ tasks[t].pc = "done"
        /\ \E i, j \in DOMAIN tasks[t].slots :
              tasks[t].slots[i] # <<>> /\ tasks[t].slots[j] = <<>>
        /\ MergesInto(t) = <<>>
        /\ tasks[t].file[1] = Pristine(t)

\* ------------------------------------------------------------- C11
\* the n-th entry of the history is a Storage.Get of a dependency that
\* went through: the Loader was called for the key after it, with nothing
\* in between but the Callback calls of the import downloads that
\* compileImports(f) made for the file fetched (line 447)
Loaded(n) ==
    /\ events[n].call = "get"
    /\ \E l \in DOMAIN events :
          /\ l > n
          /\ events[l] = [call |-> "loader", key |-> events[n].key]
          /\ \A k \in n + 1 .. l - 1 : events[k].call = "import"

\* C11: across the Compile calls made on one Compiler with one Appfile, a
\* dependency key that a call has fetched (Storage.Get) and loaded, the
\* call having returned without an error, is not fetched again by a later
\* call.
C11_DependenciesNotReloaded ==
    \A i, n, j \in DOMAIN events :
        (/\ i < n /\ n < j
         /\ Loaded(i)
         /\ events[n] = CallMark("")
         /\ \A k \in i .. n - 1 : events[k].call # "Compile")
        => ~(events[j].call = "get" /\ events[j].key = events[i].key)

\* ------------------------------------------------------------- C12
\* every file in the import cache has its path and the key as its ID
CacheIntact ==
    \A k \in DOMAIN cache :
        cache[k] # <<>> => (cache[k][1].id = k /\ cache[k][1].path = k)

\* the steps of download t once its lookup has found the key in the
\* import cache: it holds the file found, then hands that file to its
\* parent and ends; it fetches nothing and leaves the cache alone
HitFetchesNothing ==
    \A t \in DOMAIN tasks \cap DOMAIN tasks' :
        /\ (/\ tasks[t].pc = "cache"
            /\ cache[tasks[t].src] # <<>>
            /\ tasks'[t] # tasks[t])
           => /\ tasks'[t].pc = "hit"
              /\ tasks'[t].cached = cache[tasks[t].src]
              /\ <<gets', repo', cache'>> = <<gets, repo, cache>>
        /\ (/\ tasks[t].pc = "hit"
            /\ tasks'[t] # tasks[t])
           => /\ tasks'[t].pc = "done"
              /\ tasks'[t].file = <<>>
              /\ tasks'[tasks[t].par].slots[tasks[t].idx] = tasks[t].cached
              /\ <<gets', repo', cache'>> = <<gets, repo, cache>>

\* C12: on a cache hit no fetch is made, and whatever import resolutions
\* run on the Compiler, every file in the import cache keeps its path and
\* keeps the key it is cached under as its ID, though the copies merged
\* into hosts had both cleared.
C12_CacheHitAndCacheIntact ==
    /\ []CacheIntact
    /\ [][HitFetchesNothing]_vars

\* x, with y merged into it, is cached intact, was fetched once, and was
\* merged into two hosts, none of which took its ID or its path
C12_Witness ==
    /\ gets["x"] = 1
    /\ cache["x"] # <<>>
    /\ cache["x"][1].content = <<"x", "y">>
    /\ cache["x"][1].id = "x"
    /\ \E t \in DOMAIN tasks :
          tasks[t].src = "x" /\ tasks[t].cached # <<>> /\ tasks[t].pc = "done"
    /\ \E n \in DOMAIN mergeLog : mergeLog[n].imp = "x" /\ mergeLog[n].ok
    /\ rootFile.content = <<"r", "x", "y">>
    /\ rootFile.id # "x" /\ rootFile.path # "x"
    /\ depf # <<>> /\ depf[1].content = <<"a", "x", "y">>
    /\ depf[1].path = "a"

\* ------------------------------------------------------------- C13
\* C13: when compileImports has returned, with or without an error, every
\* download task it started, at every level, has finished.
C13_TasksJoinedAtReturn ==
    ImportsReturned => \A t \in DOMAIN tasks : tasks[t].pc = "done"

\* ------------------------------------------------------------- C14
\* a step in which frame t reports what its cycle query returned
CycleReported(t) ==
    /\ tasks[t].pc = "cycle"
    /\ t \in DOMAIN tasks'
    /\ tasks'[t].pc = "done"

\* C14: when the cycle query made after adding an import edge returns k
\* cycles (k >= 1), the frame appends k cycle errors to the accumulated
\* error, one for each of the cycles.
C14_OneErrorPerCycle ==
    [][\A t \in DOMAIN tasks :
          CycleReported(t) =>
             /\ Len(resultErr') =
                   Len(resultErr) + Cardinality(tasks[t].cycles)
             /\ {resultErr'[n].cyc :
                    n \in Len(resultErr) + 1 .. Len(resultErr')}
                = tasks[t].cycles]_vars

\* ------------------------------------------------------------- C15
\* the errors a step of compileDependencies returns; the root vertex is
\* in the graph by the time compileDependencies runs
DepErrKinds ==
    IF vertices = <<>> THEN {}
    ELSE {"source", "getfail", "dirfail", "statfail", "parsefail",
          "imports", "loader", "hasID", "noid"}

\* the state of the dependency graph under construction
depGraph == <<vertices, edges, vertexMap, queue>>

\* C15: the step of compileDependencies that fails (source resolution,
\* fetch, directory lookup, parse, import resolution, Loader, id check)
\* returns its error at once, the graph left as it was; from then on no
\* Storage.Get is made, for a dependency or for an import, no Callback and
\* no Loader is called, the graph and the worklist stay as they are, and
\* the error stays the first one.
C15_DependenciesFailFast ==
    [][/\ (compileErr = "" /\ compileErr' \in DepErrKinds) =>
              (cpc' = "failed" /\ UNCHANGED depGraph)
       /\ compileErr \in DepErrKinds =>
              UNCHANGED <<cpc, compileErr, events, deprepo, gets,
                          depGraph>>]_vars

\* ------------------------------------------------------------- C16
\* the calls made for key k, in the order they were made
EventsOf(k) ==
    LET ForKey(e) == e.key = k
    IN  SelectSeq(events, ForKey)

\* C16: after a successful compileDependencies, for every key but the
\* root's that has a vertex, the Callback (when set), Storage.Get and the
\* Loader (when set) were each called once for it, in that order, however
\* many dependency entries resolve to the key; none was called for the
\* root's own key.
C16_OncePerKeyInOrder ==
    DepsSucceeded =>
        /\ \A k \in DOMAIN vertexMap \ {RootKey} :
               EventsOf(k) =
                   IF vertexMap[k] = 0 THEN <<>>
                   ELSE (IF opts.callback
                         THEN <<[call |-> "callback", key |-> k]>>
                         ELSE <<>>)
                        \o <<[call |-> "get", key |-> k]>>
                        \o (IF opts.loader
                            THEN <<[call |-> "loader", key |-> k]>>
                            ELSE <<>>)
        /\ EventsOf(RootKey) = <<>>

\* with Callback and Loader set, a key two entries resolve to and an entry
\* that resolves to the root's own key
C16_Witness ==
    /\ cpc = "validate"
    /\ opts.callback /\ opts.loader
    /\ \E v \in DOMAIN vertices \ {1} :
          /\ Cardinality({e \in edges : e[2] = v}) = 2
          /\ EventsOf(VKey(v)) = <<[call |-> "callback", key |-> VKey(v)],
                                   [call |-> "get", key |-> VKey(v)],
                                   [call |-> "loader", key |-> VKey(v)]>>
    /\ \E e \in edges : e[2] = 1
    /\ Len(events) = 3 * (Len(vertices) - 1)

\* ------------------------------------------------------------- C17
\* the dependency relation over keys as the repositories declare it
WorldEdges ==
    {<<RootKey, k>> : k \in DepKeysOfFile(rootFile)}
    \cup
    UNION {{<<k, j>> : j \in DepKeysOfFile(ParseDep(k, deprepo[k][1]))} :
              k \in {j \in DOMAIN deprepo :
                        deprepo[j] # <<>> /\ deprepo[j][1].status = "ok"}}

\* the keys the root depends on, directly or not, and the root's own
WorldKeys == {RootKey} \cup Reach(RootKey, WorldEdges)

\* the file of the vertex of key k, as the repository of k and the root's
\* configuration determine it
WorldFile(k) ==
    Propagate([ParseDep(k, deprepo[k][1]) EXCEPT !.source = k], rootFile)

\* C17: whatever the order in which queued vertices are taken (last first
\* as implemented, first first, or any other), a successful
\* compileDependencies ends with the same graph: one vertex for the root's
\* key and for each key the root depends on, the edges the repositories
\* declare between them, and for each key the file its repository and the
\* root's configuration determine.
C17_GraphIndependentOfOrder ==
    DepsSucceeded =>
        /\ \A v, w \in DOMAIN vertices : VKey(v) = VKey(w) => v = w
        /\ {VKey(v) : v \in DOMAIN vertices} = WorldKeys
        /\ {<<VKey(e[1]), VKey(e[2])>> : e \in edges} =
               {e \in WorldEdges : e[1] \in WorldKeys}
        /\ vertices[1].file = rootFile
        /\ \A v \in DOMAIN vertices \ {1} :
               vertices[v].file = WorldFile(VKey(v))

\* the root depends on a and b, both depend on c, and a was taken from
\* the worklist before b (first in, first out), so that c was reached
\* from a: the vertex taken last is c
C17_Witness ==
    /\ cpc = "validate"
    /\ rootFile.deps = <<"a", "b">>
    /\ Len(vertices) = 4
    /\ VKey(4) = "c"
    /\ edges = {<<1, 2>>, <<1, 3>>, <<2, 4>>, <<3, 4>>}
    /\ cur = 4

\* ------------------------------------------------------------- C18
\* the frames download t runs under: its parent, the parent's parent, ...
\* C18: compileImports terminates for every finite import relation, one
\* with a file that imports itself and one with a longer cycle included:
\* instead of fetching a key again under its own resolution and recursing
\* without end, no download is ever started for a key that one of the
\* frames it runs under is resolving.
C18_NoDownloadUnderItself ==
    \A t \in DOMAIN tasks :
        \A u \in Ancestors(t) : tasks[u].src # tasks[t].src

\* ------------------------------------------------------------- C19
\* C19: compileDependencies never uses an absent file: when the directory
\* of a fetched dependency holds no Appfile and no Loader is set, or the
\* Loader returns no file and no error, the call returns an error and
\* does not set a field of the absent file.
C19_AbsentFileNeverUsed == cpc # "panic"

\* ------------------------------------------------------------- C20
\* C20: Compile terminates for every finite dependency relation, cyclic
\* ones included: once the worklist has emptied, graph validation
\* completes and Compile returns, with an error when the relation has a
\* cycle.
C20_ValidationReturns ==
    (cpc = "validate") ~> (cpc \in {"done", "failed"})

\* ------------------------------------------------------------- C21
\* the j-th import of frame t was obtained: its download goroutine was
\* started and has ended, and the merge slot holds the file of that key
Obtained(t, j) ==
    /\ \E c \in Children(t) : tasks[c].idx = j /\ tasks[c].pc = "done"
    /\ tasks[t].slots[j] # <<>>
    /\ <<tasks[t].slots[j][1].key>> = Detect(Pristine(t).imports[j], "")

\* every import of frame t was merged into its file: one successful
\* f.Merge call per import, in declaration order
MergedAll(t) ==
    LET calls == MergesInto(t)
        imps == Pristine(t).imports
    IN  /\ Len(calls) = Len(imps)
        /\ \A n \in DOMAIN calls :
               /\ calls[n].ok
               /\ <<calls[n].imp>> = Detect(imps[n], "")

\* every import of the transitive closure was obtained and merged into
\* its host: this holds of the file handed to compileImports and of every
\* Appfile parsed during the call (a file taken from the cache had its own
\* imports merged when it entered the cache)
AllImportsMerged ==
    \A t \in DOMAIN tasks :
        tasks[t].file # <<>> =>
            /\ \A j \in DOMAIN Pristine(t).imports : Obtained(t, j)
            /\ MergedAll(t)

\* C21: compileImports returns a nil error if and only if every import of
\* the transitive import closure of the file was obtained (fetched and
\* parsed, or taken from the cache) and merged into its host: under no
\* interleaving is a merge slot left empty or a merge skipped while nil
\* is returned, nor are all merges made while an error is returned.
C21_NilErrorIffAllMerged ==
    impRet # "none" => (impRet = "nil" <=> AllImportsMerged)

\* nil was returned for a file with two imports, one of which was parsed
\* and had an import of its own merged into it, another taken from the
\* cache
C21_Witness ==
    /\ impRet = "nil"
    /\ Len(hostOrig.imports) = 2
    /\ AllImportsMerged
    /\ \E t \in DOMAIN tasks :
          /\ t # RootTask
          /\ tasks[t].file # <<>>
          /\ Len(MergesInto(t)) = 1
    /\ \E t \in DOMAIN tasks :
          /\ t # RootTask
          /\ tasks[t].file = <<>>
          /\ tasks[tasks[t].par].slots[tasks[t].idx] # <<>>

====
